---- MODULE Spec2Model ----
(***************************************************************************)
(* The trip-logistics engine of trip-planner-ai: the geocoder              *)
(* (fetch_coordinates), the distance-matrix provider (get_osrm_matrix),    *)
(* the route optimizer (solve_tsp, optimize_daily_route) of                *)
(* app/utils/routing.py, and the part of generate_itinerary                *)
(* (app/agents/architect.py) that reads the route; the transit advisor     *)
(* (get_transit_instruction of app/utils/transport.py); the navigation     *)
(* link (generate_google_maps_url of app/utils/maps.py); the planner call  *)
(* and the persistence step of generate_itinerary (architect.py, lines     *)
(* 152-193), run by one or two sessions against one itinerary_items table; *)
(* the hotel search (search_hotels of app/utils/accommodations.py).        *)
(*                                                                         *)
(* Python lists are 0-based; the sequences of the model are 1-based, so    *)
(* index 0 of the source is index 1 here and the source's -1 ("no index")  *)
(* is NoIndex.                                                             *)
(***************************************************************************)
EXTENDS Integers, Sequences, FiniteSets, TLC

\* ------------------------------------------------------------ bounds
\* Longest list of place names handed to the route optimizer
\* (generate_itinerary passes at most six: top_places = scored_places[:6]).
MaxN == 4
\* Largest known distance of a matrix entry (entries are 0..MaxDist or None).
MaxDist == 2

\* ------------------------------------------------------------ values
AllNames == <<"A", "B", "C", "D", "E", "F">>
City == "city"
None == "None"
\* nearest_index = -1: no index (the model's indices start at 1)
NoIndex == 0
\* A null entry of the OSRM grid (Python None): no route between the two points.
Unknown == -1
\* nearest_dist = float('inf'): above every known distance
Inf == MaxDist + 1
Dist == (0 .. MaxDist) \cup {Unknown}

\* time.sleep(1.5), in tenths of a second
SLEEP_TENTHS == 15

\* The three query texts of fetch_coordinates, as the pieces of the f-string.
StrictQuery(name) == <<name, ", ", City>>
RegionalQuery(name) == <<name, " ", City>>
GlobalQuery(name) == <<name>>

\* What one call of geocode() can do: return a location, return None, raise.
GeocodeOutcomes == {"match", "none", "error"}
\* What the OSRM table call can do: raise (timeout, connection, bad JSON),
\* answer with a code other than "Ok", answer "Ok" with the distances.
OsrmResponses == {"raise", "not_ok", "ok"}

VARIABLES
  entry,            \* the function that was called: "generate_itinerary" or "solve_tsp"
  pc,               \* position of the run
  place_names,      \* optimize_daily_route's argument
  idx,              \* fetch_coordinates: position of `name` in place_names
  location,         \* fetch_coordinates: the local `location` ("match" or None)
  attempts,         \* the geocode() calls issued for the current name, in order
  results,          \* fetch_coordinates: the list `results`
  matched,          \* history: positions for which some issued query returned a match
  queried,          \* history: positions whose strict query was issued
  slept,            \* tenths of a second slept since the last lookup ended
  lookup_gap,       \* `slept` at the moment the current name's first query was issued
  coords,           \* optimize_daily_route: `coords`
  osrm,             \* the response of the OSRM call ("" before the call)
  matrix,           \* `matrix` / `distance_matrix` as a whole: "absent" ([]) or "present"
  places,           \* solve_tsp: `places`
  row,              \* solve_tsp: distance_matrix[current_index] as the last iteration read it
  all_known,        \* history: every entry of the grid read so far was a distance
  all_unknown,      \* history: every entry of the grid read so far was null
  visited,          \* solve_tsp: the indices j with visited[j] = True
  optimized_route,  \* solve_tsp: `optimized_route`, as indices into places
  current_index,    \* solve_tsp: `current_index`
  iter,             \* solve_tsp: iterations of `for _ in range(n - 1)` done
  fallbacks,        \* history: positions of optimized_route filled by the fallback
  sorted_coords,    \* what solve_tsp returned
  ret,              \* what optimize_daily_route returned
  i,                \* generate_itinerary: the loop index of the transit loop
  ordered_names,    \* generate_itinerary: `ordered_names`
  transit_log,      \* generate_itinerary: `transit_log`
  error             \* the exception that ended the run ("" when none)

VARIABLES
  distance_meters,  \* get_transit_instruction: its first argument, in metres
  daily_budget,     \* get_transit_instruction: its second argument
  instruction       \* what get_transit_instruction returned

VARIABLES
  url_places,       \* generate_google_maps_url: its argument places
  url_city,         \* generate_google_maps_url: its argument city
  full_url          \* what generate_google_maps_url returned (None before)

VARIABLES
  trip_id,          \* per run: the trip generate_itinerary was called for
  run_pc,           \* per run: the statement of lines 152-193 it is at
  content,          \* per run: the planner's response (None before it)
  items_to_save,    \* per run: the rows assembled by lines 165-178
  llm_calls,        \* per run: the number of llm.invoke calls made
  result,           \* per run: what the caller of generate_itinerary got
  failed_at,        \* per run: the statement that raised ("" when none)
  itinerary_items,  \* the table itinerary_items of the store, in insert order
  db_log            \* the delete and insert calls the store served, in order

VARIABLES
  hotels_pc,        \* search_hotels: the statement it is at ("off" when not called)
  hotels_budget,    \* search_hotels: its argument daily_budget
  token,            \* search_hotels: what get_amadeus_token returned
  options,          \* search_hotels: the list options
  hotels_ret        \* what search_hotels returned (None before)

geoVars == <<idx, location, attempts, results, matched, queried, slept, lookup_gap>>
routeVars == <<coords, osrm, matrix, ret>>
tspVars == <<places, row, all_known, all_unknown, visited, optimized_route, current_index,
             iter, fallbacks, sorted_coords>>
archVars == <<i, ordered_names, transit_log, error>>
transitVars == <<distance_meters, daily_budget, instruction>>
\* The variables of the components other than the routing pipeline.
mapsVars == <<url_places, url_city, full_url>>
persistVars == <<trip_id, run_pc, content, items_to_save, llm_calls, result,
                 failed_at, itinerary_items, db_log>>
hotelsVars == <<hotels_pc, hotels_budget, token, options, hotels_ret>>
extVars == <<transitVars, mapsVars, persistVars, hotelsVars>>
\* The variables of the routing pipeline but entry and pc.
pipeVars == <<place_names, geoVars, routeVars, tspVars, archVars>>
vars == <<entry, pc, pipeVars, extVars>>

\* ------------------------------------------------------------ helpers
Names(n) == SubSeq(AllNames, 1, n)
\* A Coordinate dict {"name", "lat", "lon"}; only the name is ever read back.
Coordinate(name) == [name |-> name]
\* A Python str, as generate_itinerary sees the elements of the route.
Str(name) == [kind |-> "str", val |-> name]
\* [c['name'] for c in cs]
NamesOf(cs) == [k \in 1 .. Len(cs) |-> cs[k].name]

\* ------------------------------------------------------------ fetch_coordinates
Attempt(strategy, provider, query, outcome) ==
  [strategy |-> strategy, provider |-> provider, query |-> query, outcome |-> outcome]

\* A variant of AfterGeocode with the `if not location` guards dropped: a
\* match does not stop the later attempts.
AfterGeocodeNoStop(outcome, next) ==
  IF outcome = "error" THEN "except" ELSE next

\* Where the run goes after a geocode() call: a raise leaves the try block for
\* the except clause of the name; a location skips the remaining `if not
\* location` attempts; None goes on to the next attempt.
AfterGeocode(outcome, next) ==
  IF outcome = "error" THEN "except"
  ELSE IF outcome = "match" THEN "store"
  ELSE next

\* Attempt 1: location = geo_nom.geocode(f"{name}, {city}", timeout=10)
GeocodeStrict ==
  /\ pc = "strict"
  /\ \E outcome \in GeocodeOutcomes :
       /\ attempts' = Append(attempts,
             Attempt("strict", "Nominatim", StrictQuery(place_names[idx]), outcome))
       /\ location' = IF outcome = "match" THEN "match" ELSE None
       /\ matched' = IF outcome = "match" THEN matched \cup {idx} ELSE matched
       /\ pc' = AfterGeocode(outcome, "regional")
  /\ queried' = queried \cup {idx}
  /\ lookup_gap' = slept
  /\ UNCHANGED <<entry, extVars, place_names, idx, results, slept, routeVars, tspVars, archVars>>

\* Attempt 2: if not location: location = geo_pho.geocode(f"{name} {city}", timeout=10)
GeocodeFuzzyRegional ==
  /\ pc = "regional"
  /\ \E outcome \in GeocodeOutcomes :
       /\ attempts' = Append(attempts,
             Attempt("regional", "Photon", RegionalQuery(place_names[idx]), outcome))
       /\ location' = IF outcome = "match" THEN "match" ELSE None
       /\ matched' = IF outcome = "match" THEN matched \cup {idx} ELSE matched
       /\ pc' = AfterGeocode(outcome, "global")
  /\ UNCHANGED <<entry, extVars, place_names, idx, results, queried, slept, lookup_gap,
                 routeVars, tspVars, archVars>>

\* Attempt 3: if not location: location = geo_pho.geocode(name, timeout=10)
GeocodeFuzzyGlobal ==
  /\ pc = "global"
  /\ \E outcome \in GeocodeOutcomes :
       /\ attempts' = Append(attempts,
             Attempt("global", "Photon", GlobalQuery(place_names[idx]), outcome))
       /\ location' = IF outcome = "match" THEN "match" ELSE None
       /\ matched' = IF outcome = "match" THEN matched \cup {idx} ELSE matched
       /\ pc' = AfterGeocode(outcome, "store")
  /\ UNCHANGED <<entry, extVars, place_names, idx, results, queried, slept, lookup_gap,
                 routeVars, tspVars, archVars>>

\* A variant of StoreLocation that appends an entry for every name, found or not.
StoreAlways ==
  /\ pc = "store"
  /\ results' = Append(results, Coordinate(place_names[idx]))
  /\ slept' = 0
  /\ pc' = "sleep"
  /\ UNCHANGED <<entry, extVars, place_names, idx, location, attempts, matched, queried,
                 lookup_gap, routeVars, tspVars, archVars>>

\* if location: results.append({...}) else: print(warning)
StoreLocation ==
  /\ pc = "store"
  /\ results' = IF location # None
                THEN Append(results, Coordinate(place_names[idx]))
                ELSE results
  /\ slept' = 0
  /\ pc' = "sleep"
  /\ UNCHANGED <<entry, extVars, place_names, idx, location, attempts, matched, queried,
                 lookup_gap, routeVars, tspVars, archVars>>

\* A variant of GeocodeExcept with time.sleep inside the try block: after an
\* error the loop goes to the next name at once.
ExceptSkipsSleep ==
  /\ pc = "except"
  /\ slept' = 0
  /\ idx' = idx + 1
  /\ location' = None
  /\ attempts' = <<>>
  /\ pc' = IF idx + 1 <= Len(place_names) THEN "strict" ELSE "fetch_return"
  /\ UNCHANGED <<entry, extVars, place_names, results, matched, queried, lookup_gap,
                 routeVars, tspVars, archVars>>

\* except Exception as e: print(error)
GeocodeExcept ==
  /\ pc = "except"
  /\ slept' = 0
  /\ pc' = "sleep"
  /\ UNCHANGED <<entry, extVars, place_names, idx, location, attempts, results, matched,
                 queried, lookup_gap, routeVars, tspVars, archVars>>

\* time.sleep(1.5), then the next name of the for loop (location = None) or
\* the end of the loop.
RateLimitSleep ==
  /\ pc = "sleep"
  /\ slept' = slept + SLEEP_TENTHS
  /\ idx' = idx + 1
  /\ location' = None
  /\ attempts' = <<>>
  /\ pc' = IF idx + 1 <= Len(place_names) THEN "strict" ELSE "fetch_return"
  /\ UNCHANGED <<entry, extVars, place_names, results, matched, queried, lookup_gap,
                 routeVars, tspVars, archVars>>

\* return results (line 53), then lines 135-138 of optimize_daily_route:
\* coords = fetch_coordinates(...); if len(coords) < 2: return place_names
OptimizeFetched ==
  /\ pc = "fetch_return"
  /\ coords' = results
  /\ IF Len(results) < 2
     THEN /\ ret' = [k \in 1 .. Len(place_names) |-> Str(place_names[k])]
          /\ pc' = "returned"
     ELSE /\ ret' = ret
          /\ pc' = "osrm"
  /\ UNCHANGED <<entry, extVars, place_names, geoVars, osrm, matrix, tspVars, archVars>>

\* ------------------------------------------------------------ get_osrm_matrix
\* [] for fewer than 2 coordinates, for a request that raises and for a code
\* other than "Ok"; data["distances"] otherwise.
get_osrm_matrix(coordinates, response) ==
  IF Len(coordinates) < 2 THEN "absent"
  ELSE IF response = "ok" THEN "present"
  ELSE "absent"

\* Lines 141-144 of optimize_daily_route: matrix = get_osrm_matrix(coords);
\* if not matrix: return [c['name'] for c in coords]; else solve_tsp(coords, matrix)
OptimizeMatrix ==
  /\ pc = "osrm"
  /\ \E response \in OsrmResponses :
       /\ osrm' = response
       /\ matrix' = get_osrm_matrix(coords, response)
  /\ IF matrix' = "absent"
     THEN /\ ret' = [k \in 1 .. Len(coords) |-> Str(coords[k].name)]
          /\ places' = places
          /\ pc' = "returned"
     ELSE /\ ret' = ret
          /\ places' = coords
          /\ pc' = "solve_tsp"
  /\ UNCHANGED <<entry, extVars, place_names, geoVars, coords, row, all_known, all_unknown,
                 visited, optimized_route, current_index, iter, fallbacks,
                 sorted_coords, archVars>>

\* ------------------------------------------------------------ solve_tsp
\* `dist is not None`, the left operand of the `and` of line 109
IsNotNone(dist) == dist # Unknown

\* A variant of Closer with <= for <: the last of several nearest nodes wins.
CloserOrEqual(dist, nearest_dist) == IsNotNone(dist) /\ dist <= nearest_dist

\* if dist is not None and dist < nearest_dist
Closer(dist, nearest_dist) == IsNotNone(dist) /\ dist < nearest_dist

\* `dist < nearest_dist` is evaluated only when the left operand of the `and`
\* holds, and comparing None with a float raises TypeError: whether the scan
\* of row r over the unvisited columns raises.
ScanRaises(n, r, vis) ==
  \E j \in (1 .. n) \ vis : IsNotNone(r[j]) /\ r[j] = Unknown

\* The inner loop `for j in range(n)` of lines 104-111, from index j on, with
\* the nearest_dist and nearest_index found so far: the final nearest_index.
RECURSIVE ScanRow(_, _, _, _, _, _)
ScanRow(j, n, r, vis, nearest_dist, nearest_index) ==
  IF j > n THEN nearest_index
  ELSE IF j \notin vis /\ Closer(r[j], nearest_dist)
       THEN ScanRow(j + 1, n, r, vis, r[j], j)
       ELSE ScanRow(j + 1, n, r, vis, nearest_dist, nearest_index)

\* nearest_dist = float('inf'); nearest_index = -1; the inner loop
NearestIndex(n, r, vis) == ScanRow(1, n, r, vis, Inf, NoIndex)

\* A variant of FirstUnvisited that takes the last unvisited index.
LastUnvisited(n, vis) ==
  IF (1 .. n) \ vis = {} THEN NoIndex
  ELSE CHOOSE j \in (1 .. n) \ vis : \A k \in (1 .. n) \ vis : j >= k

\* The fallback loop of lines 120-125: the first j with not visited[j]
\* (NoIndex when the loop finds none and changes nothing).
FirstUnvisited(n, vis) ==
  IF (1 .. n) \ vis = {} THEN NoIndex
  ELSE CHOOSE j \in (1 .. n) \ vis : \A k \in (1 .. n) \ vis : j <= k

\* A variant of MarkVisited that forgets the mark.
NoMark(vis, j) == vis

\* visited[j] = True
MarkVisited(vis, j) == vis \cup {j}

\* Lines 88-97: the early return, or the anchor at start_index (0 in the
\* source, 1 here).
SolveTspEnter ==
  /\ pc = "solve_tsp"
  /\ IF Len(places) = 0 \/ matrix = "absent"
     THEN /\ sorted_coords' = places
          /\ pc' = "tsp_done"
          /\ UNCHANGED <<visited, optimized_route, current_index>>
     ELSE /\ current_index' = 1
          /\ visited' = MarkVisited({}, 1)
          /\ optimized_route' = <<1>>
          /\ sorted_coords' = sorted_coords
          /\ pc' = "tsp_loop"
  /\ UNCHANGED <<entry, extVars, place_names, geoVars, routeVars, places, row, all_known,
                 all_unknown, iter, fallbacks, archVars>>

\* One iteration of `for _ in range(n - 1)` (lines 100-125). The row of the
\* grid at current_index is drawn here, when it is read: current_index is
\* never the current node twice, so every entry of the grid is read at most
\* once in a run, and only the entries of unvisited columns are read. The
\* model keeps the row read last.
TspIteration ==
  /\ pc = "tsp_loop"
  /\ iter < Len(places) - 1
  /\ \E r \in [(1 .. Len(places)) \ visited -> Dist] :
       LET n == Len(places)
           nearest_index == NearestIndex(n, r, visited)
           j == IF nearest_index # NoIndex THEN nearest_index
                ELSE FirstUnvisited(n, visited)
       IN /\ row' = r
          /\ all_known' = (all_known /\ \A k \in DOMAIN r : r[k] # Unknown)
          /\ all_unknown' = (all_unknown /\ \A k \in DOMAIN r : r[k] = Unknown)
          /\ IF ScanRaises(n, r, visited)
             THEN /\ error' = "TypeError"
                  /\ pc' = "raised"
                  /\ UNCHANGED <<visited, optimized_route, current_index, fallbacks>>
             ELSE /\ UNCHANGED <<pc, error>>
                  /\ IF j # NoIndex
                     THEN /\ visited' = MarkVisited(visited, j)
                          /\ optimized_route' = Append(optimized_route, j)
                          /\ current_index' = j
                          /\ fallbacks' = IF nearest_index = NoIndex
                                          THEN fallbacks \cup {Len(optimized_route) + 1}
                                          ELSE fallbacks
                     ELSE UNCHANGED <<visited, optimized_route, current_index,
                                      fallbacks>>
  /\ iter' = iter + 1
  /\ UNCHANGED <<entry, extVars, place_names, geoVars, routeVars, places, sorted_coords,
                 i, ordered_names, transit_log>>

\* return optimized_route (line 127)
TspReturn ==
  /\ pc = "tsp_loop"
  /\ iter >= Len(places) - 1
  /\ sorted_coords' = [k \in 1 .. Len(optimized_route) |-> places[optimized_route[k]]]
  /\ pc' = "tsp_done"
  /\ UNCHANGED <<entry, extVars, place_names, geoVars, routeVars, places, row, all_known,
                 all_unknown, visited, optimized_route, current_index, iter,
                 fallbacks, archVars>>

\* Lines 147-153 of optimize_daily_route: the names of sorted_coords.
OptimizeReturn ==
  /\ pc = "tsp_done"
  /\ entry = "generate_itinerary"
  /\ ret' = [k \in 1 .. Len(sorted_coords) |-> Str(sorted_coords[k].name)]
  /\ pc' = "returned"
  /\ UNCHANGED <<entry, extVars, place_names, geoVars, coords, osrm, matrix, tspVars, archVars>>

\* ------------------------------------------------------------ generate_itinerary
\* One iteration of `for i, route_node in enumerate(optimized_route_data)`
\* (lines 103-112), optimized_route_data being what optimize_daily_route
\* returned. Subscripting a str with 'name' raises TypeError; a dict node
\* gives its name and, when distance_to_next > 0 and a next stop exists, one
\* transit instruction.
TransitLoop ==
  /\ pc = "returned"
  /\ i <= Len(ret)
  /\ IF ret[i].kind = "str"
     THEN /\ error' = "TypeError"
          /\ pc' = "raised"
          /\ UNCHANGED <<i, ordered_names, transit_log>>
     ELSE /\ ordered_names' = Append(ordered_names, ret[i].name)
          /\ transit_log' =
               IF ret[i].distance_to_next > 0 /\ i < Len(ret)
               THEN Append(transit_log,
                           <<ret[i].name, ret[i + 1].name, ret[i].distance_to_next>>)
               ELSE transit_log
          /\ i' = i + 1
          /\ UNCHANGED <<pc, error>>
  /\ UNCHANGED <<entry, extVars, place_names, geoVars, routeVars, tspVars>>

\* The transit loop ends; the run goes on to build the prompt.
TransitDone ==
  /\ pc = "returned"
  /\ i > Len(ret)
  /\ pc' = "prompt"
  /\ UNCHANGED <<entry, extVars, place_names, geoVars, routeVars, tspVars, archVars>>

\* ------------------------------------------------------------ specification
\* No call of get_transit_instruction is under way.
TransitIdle ==
  /\ distance_meters = 0
  /\ daily_budget = 0
  /\ instruction = None

\* No call of generate_google_maps_url is under way.
MapsIdle ==
  /\ url_places = <<>>
  /\ url_city = <<>>
  /\ full_url = None

\* The sessions that can run lines 152-193 of generate_itinerary.
Runs == {1, 2}

\* No run of lines 152-193 is under way.
PersistIdle ==
  /\ trip_id = [r \in Runs |-> None]
  /\ run_pc = [r \in Runs |-> "off"]
  /\ content = [r \in Runs |-> None]
  /\ items_to_save = [r \in Runs |-> <<>>]
  /\ llm_calls = [r \in Runs |-> 0]
  /\ result = [r \in Runs |-> None]
  /\ failed_at = [r \in Runs |-> ""]
  /\ itinerary_items = <<>>
  /\ db_log = <<>>

\* No call of search_hotels is under way.
HotelsIdle ==
  /\ hotels_pc = "off"
  /\ hotels_budget = 0
  /\ token = ""
  /\ options = <<>>
  /\ hotels_ret = None

ExtIdle == TransitIdle /\ MapsIdle /\ PersistIdle /\ HotelsIdle

\* generate_itinerary at line 83 with the names of top_places, or a direct
\* call solve_tsp(places, distance_matrix) with any list of coordinates and a
\* grid that is empty or of matching size.
Init ==
  /\ entry \in {"generate_itinerary", "solve_tsp"}
  /\ \E n \in 0 .. MaxN :
       /\ place_names = Names(n)
       /\ places = IF entry = "solve_tsp"
                   THEN [k \in 1 .. n |-> Coordinate(Names(n)[k])]
                   ELSE <<>>
       /\ pc = IF entry = "solve_tsp" THEN "solve_tsp"
               ELSE IF n >= 1 THEN "strict" ELSE "fetch_return"
  /\ matrix \in IF entry = "solve_tsp" THEN {"absent", "present"} ELSE {"absent"}
  /\ idx = 1
  /\ location = None
  /\ attempts = <<>>
  /\ results = <<>>
  /\ matched = {}
  /\ queried = {}
  /\ slept = 0
  /\ lookup_gap = 0
  /\ coords = <<>>
  /\ osrm = ""
  /\ row = <<>>
  /\ all_known = TRUE
  /\ all_unknown = TRUE
  /\ visited = {}
  /\ optimized_route = <<>>
  /\ current_index = NoIndex
  /\ iter = 0
  /\ fallbacks = {}
  /\ sorted_coords = <<>>
  /\ ret = <<>>
  /\ i = 1
  /\ ordered_names = <<>>
  /\ transit_log = <<>>
  /\ error = ""
  /\ ExtIdle

Next ==
  \/ GeocodeStrict
  \/ GeocodeFuzzyRegional
  \/ GeocodeFuzzyGlobal
  \/ StoreLocation
  \/ GeocodeExcept
  \/ RateLimitSleep
  \/ OptimizeFetched
  \/ OptimizeMatrix
  \/ SolveTspEnter
  \/ TspIteration
  \/ TspReturn
  \/ OptimizeReturn
  \/ TransitLoop
  \/ TransitDone

Spec == Init /\ [][Next]_vars

\* The loops of the source are sequential code: a step that can be taken is taken.
FairSpec == Spec /\ WF_vars(Next)

\* The routing pipeline is not running.
PipeIdle ==
  /\ place_names = <<>>
  /\ places = <<>>
  /\ matrix = "absent"
  /\ idx = 1
  /\ location = None
  /\ attempts = <<>>
  /\ results = <<>>
  /\ matched = {}
  /\ queried = {}
  /\ slept = 0
  /\ lookup_gap = 0
  /\ coords = <<>>
  /\ osrm = ""
  /\ row = <<>>
  /\ all_known = TRUE
  /\ all_unknown = TRUE
  /\ visited = {}
  /\ optimized_route = <<>>
  /\ current_index = NoIndex
  /\ iter = 0
  /\ fallbacks = {}
  /\ sorted_coords = <<>>
  /\ ret = <<>>
  /\ i = 1
  /\ ordered_names = <<>>
  /\ transit_log = <<>>
  /\ error = ""

\* ------------------------------------------------------------ get_transit_instruction
\* Largest distance handed to get_transit_instruction, in metres.
MaxMeters == 5000
\* The daily budgets tried (INR): below, at and above the cab threshold.
Budgets == {0, 3000, 4000, 4001, 5000}

\* km < 2.0 with km = distance_meters / 1000.0, in metres
WALK_LIMIT_METERS == 2000
\* daily_budget > 4000
CAB_BUDGET == 4000
\* the rates of lines 16, 23, 24, 29 and 30
WALK_MINS_PER_KM == 12
CAB_COST_PER_KM == 25
CAB_MINS_PER_KM == 3
AUTO_COST_PER_KM == 15
AUTO_MINS_PER_KM == 4

\* The (distance in metres, rate) pairs up to 8000 m whose product is a whole
\* number but whose double product km * rate lies just below it (2.28 * 25 is
\* 56.99999999999999), so that int() gives one less.
FloatShort ==
  {<<1160, 25>>, <<2280, 25>>, <<2320, 25>>, <<4520, 25>>, <<4560, 25>>,
   <<4600, 25>>, <<4640, 25>>}

\* int(km * rate) for a positive distance: the product cut to a whole number.
IntOfProduct(meters, rate) ==
  ((meters * rate) \div 1000) - (IF <<meters, rate>> \in FloatShort THEN 1 ELSE 0)

\* if distance_meters <= 0: return ""
NoTransit(meters) == meters <= 0

\* A variant of Walkable with the 2 km boundary on the walking side.
WalkableInclusive(meters) == meters <= WALK_LIMIT_METERS

\* if km < 2.0
Walkable(meters) == meters < WALK_LIMIT_METERS

\* if daily_budget > 4000
CabBudget(budget) == budget > CAB_BUDGET

\* The returned text as its parts: the mode, the minutes and the cost
\* ("Free" is cost 0); the empty string is mode "none".
get_transit_instruction(meters, budget) ==
  IF NoTransit(meters) THEN [mode |-> "none", mins |-> 0, cost |-> 0]
  ELSE IF Walkable(meters)
       THEN [mode |-> "walk", mins |-> IntOfProduct(meters, WALK_MINS_PER_KM),
             cost |-> 0]
  ELSE IF CabBudget(budget)
       THEN [mode |-> "cab", mins |-> IntOfProduct(meters, CAB_MINS_PER_KM),
             cost |-> IntOfProduct(meters, CAB_COST_PER_KM)]
  ELSE [mode |-> "auto", mins |-> IntOfProduct(meters, AUTO_MINS_PER_KM),
        cost |-> IntOfProduct(meters, AUTO_COST_PER_KM)]

\* A call get_transit_instruction(distance_meters, daily_budget) returns.
TransitCall ==
  /\ entry = "get_transit_instruction"
  /\ pc = "call"
  /\ instruction' = get_transit_instruction(distance_meters, daily_budget)
  /\ pc' = "done"
  /\ UNCHANGED <<entry, pipeVars, distance_meters, daily_budget, mapsVars,
                 persistVars, hotelsVars>>

TransitInit ==
  /\ entry = "get_transit_instruction"
  /\ pc = "call"
  /\ PipeIdle
  /\ distance_meters \in (-10) .. MaxMeters
  /\ daily_budget \in Budgets
  /\ instruction = None
  /\ MapsIdle
  /\ PersistIdle
  /\ HotelsIdle

TransitNext == TransitCall

SpecTransit == TransitInit /\ [][TransitNext]_vars

\* ------------------------------------------------------------ generate_google_maps_url
\* Strings are sequences of characters here, so that the percent-encoding of
\* quote_plus is computed and can be undone.

\* Most names handed to generate_google_maps_url.
MaxUrlNames == 3

\* The place names tried: plain, with a space, and with the characters that
\* have a meaning inside a URL ("&", "=") or inside the waypoints list ("|").
UrlNames == {<<"A">>, <<"B", " ", "C">>, <<"D", "&", "E", "=">>, <<"|", "+">>}
\* The cities tried (trip['destination']).
UrlCities == {<<"G">>, <<"N", " ", "D">>}

\* The characters urllib.parse.quote_plus leaves alone (the ones in use here).
SafeChars == {"A", "B", "C", "D", "E", "G", "N"}

\* The two hexadecimal digits of the byte of an ASCII character.
HexOf(c) ==
  CASE c = "&" -> <<"2", "6">>
    [] c = "=" -> <<"3", "D">>
    [] c = "|" -> <<"7", "C">>
    [] c = "+" -> <<"2", "B">>
    [] c = "%" -> <<"2", "5">>

\* quote_plus of one character.
QuoteChar(c) ==
  IF c = " " THEN <<"+">>
  ELSE IF c \in SafeChars THEN <<c>>
  ELSE <<"%">> \o HexOf(c)

RECURSIVE quote_plus(_)
quote_plus(str) ==
  IF str = <<>> THEN <<>> ELSE QuoteChar(Head(str)) \o quote_plus(Tail(str))

\* f"{p} {city}"
WithCity(p, city) == p \o <<" ">> \o city

\* "|".join(strs)
RECURSIVE JoinPipe(_)
JoinPipe(strs) ==
  IF strs = <<>> THEN <<>>
  ELSE IF Len(strs) = 1 THEN strs[1]
  ELSE strs[1] \o <<"|">> \o JoinPipe(Tail(strs))

\* A variant of middle_places that keeps the last place.
MiddleAndLast(plcs) == SubSeq(plcs, 2, Len(plcs))

\* places[1:-1]
middle_places(plcs) == SubSeq(plcs, 2, Len(plcs) - 1)

base_url ==
  <<"h", "t", "t", "p", "s", ":", "/", "/", "w", "w", "w", ".", "g", "o", "o",
    "g", "l", "e", ".", "c", "o", "m", "/", "m", "a", "p", "s", "/", "d", "i",
    "r", "/", "?", "a", "p", "i", "=", "1">>
OriginKey == <<"o", "r", "i", "g", "i", "n">>
DestinationKey == <<"d", "e", "s", "t", "i", "n", "a", "t", "i", "o", "n">>
WaypointsKey == <<"w", "a", "y", "p", "o", "i", "n", "t", "s">>

generate_google_maps_url(plcs, city) ==
  IF Len(plcs) < 2 THEN <<>>
  ELSE
    LET origin == quote_plus(WithCity(plcs[1], city))
        destination == quote_plus(WithCity(plcs[Len(plcs)], city))
        mid == middle_places(plcs)
        waypoints ==
          IF Len(plcs) > 2
          THEN quote_plus(JoinPipe([k \in 1 .. Len(mid) |-> WithCity(mid[k], city)]))
          ELSE <<>>
        url == base_url \o <<"&">> \o OriginKey \o <<"=">> \o origin
                 \o <<"&">> \o DestinationKey \o <<"=">> \o destination
    IN IF waypoints # <<>>
       THEN url \o <<"&">> \o WaypointsKey \o <<"=">> \o waypoints
       ELSE url

\* A call generate_google_maps_url(url_places, url_city) returns.
MapsCall ==
  /\ entry = "generate_google_maps_url"
  /\ pc = "call"
  /\ full_url' = generate_google_maps_url(url_places, url_city)
  /\ pc' = "done"
  /\ UNCHANGED <<entry, pipeVars, transitVars, url_places, url_city,
                 persistVars, hotelsVars>>

MapsInit ==
  /\ entry = "generate_google_maps_url"
  /\ pc = "call"
  /\ PipeIdle
  /\ TransitIdle
  /\ \E n \in 0 .. MaxUrlNames : url_places \in [1 .. n -> UrlNames]
  /\ url_city \in UrlCities
  /\ full_url = None
  /\ PersistIdle
  /\ HotelsIdle

MapsNext == MapsCall

SpecMaps == MapsInit /\ [][MapsNext]_vars

\* ------------------------------------------------------------ generate_itinerary, lines 152-193
\* Most activities in one planner response.
MaxActs == 2
\* The day numbers a planner response can hold.
DayNumbers == {1, 2}
\* The trips of the store.
Trips == {"T1", "T2"}

\* The variables lines 152-193 leave alone.
restVars == <<entry, pc, pipeVars, transitVars, mapsVars, hotelsVars>>

\* Times are strings of characters, so that the pattern of line 169 is matched
\* character by character.
Digits == {"0", "1", "2", "3", "4", "5", "6", "7", "8", "9"}
\* '09:00:00', the default of lines 168 and 170
DEFAULT_START == <<"0", "9", ":", "0", "0", ":", "0", "0">>
\* "00:00:00", the default of line 176
DEFAULT_END == <<"0", "0", ":", "0", "0", ":", "0", "0">>

\* The time strings the planner is tried with.
T_143000 == <<"1", "4", ":", "3", "0", ":", "0", "0">>
T_905 == <<"9", ":", "0", "5">>
T_Morning == <<"M", "o", "r", "n", "i", "n", "g">>
T_9_5 == <<"9", ":", "5">>
T_1000AM == <<"1", "0", ":", "0", "0", " ", "A", "M">>
T_180000 == <<"1", "8", ":", "0", "0", ":", "0", "0">>
TimeChoices == {T_143000, T_905, T_Morning, T_9_5, T_1000AM}

\* A variant of TimeMatches that lets every string through.
TimeMatchesAny(raw_time) == TRUE

\* re.match(r"^\d{1,2}:\d{2}", raw_time): the pattern at the start of the
\* string, whatever follows it.
TimeMatches(raw_time) ==
  \/ /\ Len(raw_time) >= 4
     /\ raw_time[1] \in Digits
     /\ raw_time[2] = ":"
     /\ raw_time[3] \in Digits
     /\ raw_time[4] \in Digits
  \/ /\ Len(raw_time) >= 5
     /\ raw_time[1] \in Digits
     /\ raw_time[2] \in Digits
     /\ raw_time[3] = ":"
     /\ raw_time[4] \in Digits
     /\ raw_time[5] \in Digits

\* dict.get(key, default)
Get(dict, key, default) == IF key \in DOMAIN dict THEN dict[key] ELSE default

\* Lines 168-170: the start_time of an activity.
Sanitize(activity) ==
  LET raw_time == Get(activity, "time", DEFAULT_START)
  IN IF ~TimeMatches(raw_time) THEN DEFAULT_START ELSE raw_time

\* Lines 172-178: the row of an activity.
ItemOf(trip, day, activity) ==
  [trip_id |-> trip,
   day_number |-> day.day,
   start_time |-> Sanitize(activity),
   end_time |-> Get(activity, "end_time", DEFAULT_END),
   notes |-> <<Get(activity, "activity", "Activity"), Get(activity, "notes", "")>>]

\* An activity of the planner with the keys it chose to give (an empty time or
\* end_time here stands for a key left out).
Act(time, end_time) ==
  IF time # <<>> /\ end_time # <<>>
  THEN [time |-> time, end_time |-> end_time, activity |-> "Visit", notes |-> "n"]
  ELSE IF time # <<>>
  THEN [time |-> time, activity |-> "Visit", notes |-> "n"]
  ELSE IF end_time # <<>>
  THEN [end_time |-> end_time, activity |-> "Visit", notes |-> "n"]
  ELSE [activity |-> "Visit", notes |-> "n"]

Activities ==
  {Act(t, <<>>) : t \in TimeChoices \cup {<<>>}}
    \cup {Act(T_143000, T_180000), Act(<<>>, T_180000)}

ActSeqs(k) == UNION {[1 .. n -> Activities] : n \in 0 .. k}

\* The day entries with number d and at most k activities; the first has no
\* 'activities' key.
DaysOf(d, k) ==
  {[day |-> d]} \cup {[day |-> d, activities |-> acts] : acts \in ActSeqs(k)}

NActs(day) == IF "activities" \in DOMAIN day THEN Len(day.activities) ELSE 0

\* The arrays of day entries with at most MaxActs activities in all.
Plans ==
  {<<>>}
    \cup {<<d1>> : d1 \in DaysOf(1, MaxActs)}
    \cup UNION {{<<d1, d2>> : d2 \in DaysOf(2, MaxActs - NActs(d1))} :
                 d1 \in DaysOf(1, MaxActs)}

\* What the planner can answer: text that is no JSON, JSON that is no array
\* (the object {} and a number), and arrays of day entries.
NotJson == [kind |-> "invalid"]
EmptyObject == [kind |-> "object"]
Number == [kind |-> "number"]
Array(days) == [kind |-> "array", days |-> days]

\* The answers tried when two runs are under way.
FewResponses ==
  {NotJson, EmptyObject, Array(<<>>), Array(<<[day |-> 1]>>),
   Array(<<[day |-> 1, activities |-> <<Act(T_143000, <<>>)>>]>>),
   Array(<<[day |-> 1, activities |-> <<Act(T_Morning, <<>>)>>]>>)}

Active == {r \in Runs : run_pc[r] # "off"}

Responses ==
  IF Cardinality(Active) = 1
  THEN {NotJson, EmptyObject, Number} \cup {Array(days) : days \in Plans}
  ELSE FewResponses

\* Lines 166-178 for one day: the rows of its activities, or the exception of
\* day['activities'].
RECURSIVE DayItems(_, _, _)
DayItems(trip, day, k) ==
  IF k > Len(day.activities) THEN <<>>
  ELSE <<ItemOf(trip, day, day.activities[k])>> \o DayItems(trip, day, k + 1)

\* Lines 165-178: [raised |-> the exception or "", items |-> items_to_save].
RECURSIVE BuildFrom(_, _, _, _)
BuildFrom(trip, days, k, items) ==
  IF k > Len(days) THEN [raised |-> "", items |-> items]
  ELSE IF "activities" \notin DOMAIN days[k]
       THEN [raised |-> "KeyError", items |-> items]
  ELSE BuildFrom(trip, days, k + 1, items \o DayItems(trip, days[k], 1))

Build(trip, plan) ==
  CASE plan.kind = "array" -> BuildFrom(trip, plan.days, 1, <<>>)
    [] plan.kind = "object" -> [raised |-> "", items |-> <<>>]
    [] plan.kind = "number" -> [raised |-> "TypeError", items |-> <<>>]

\* A variant of ForTrip that takes the rows of every trip.
ForAnyTrip(item, trip) == TRUE

\* .eq("trip_id", trip_id)
ForTrip(item, trip) == item.trip_id = trip

\* A variant of RemainingRows that deletes nothing.
KeepRows(table, trip) == table

\* The table after delete().eq("trip_id", trip_id).
RemainingRows(table, trip) == SelectSeq(table, LAMBDA item : ~ForTrip(item, trip))

DeletedRows(table, trip) == SelectSeq(table, LAMBDA item : ForTrip(item, trip))

TripsOf(items) == {items[k].trip_id : k \in DOMAIN items}

\* A variant of StoreServes under which the store serves one run at a time
\* from its delete to its insert.
StoreServesOneRun(r) ==
  \A other \in Runs \ {r} : run_pc[other] \notin {"build", "insert"}

\* Lines 163 and 181 are two separate calls with no lock or transaction around
\* them: the store serves the call of a run whatever the other run is at.
StoreServes(r) == TRUE

Raise(r, stmt, exc) ==
  /\ result' = [result EXCEPT ![r] = [kind |-> "exception", error |-> exc]]
  /\ failed_at' = [failed_at EXCEPT ![r] = stmt]
  /\ run_pc' = [run_pc EXCEPT ![r] = "done"]

\* Lines 152-153: response = llm.invoke(...)
LlmInvoke(r) ==
  /\ run_pc[r] = "llm"
  /\ \E response \in Responses : content' = [content EXCEPT ![r] = response]
  /\ llm_calls' = [llm_calls EXCEPT ![r] = @ + 1]
  /\ run_pc' = [run_pc EXCEPT ![r] = "parse"]
  /\ UNCHANGED <<restVars, trip_id, items_to_save, result, failed_at,
                 itinerary_items, db_log>>

\* Lines 155-159: json.loads(content), and the error result when it raises.
ParsePlan(r) ==
  /\ run_pc[r] = "parse"
  /\ IF content[r].kind = "invalid"
     THEN /\ result' = [result EXCEPT ![r] =
                 [kind |-> "error", error |-> "Failed to parse AI output into JSON."]]
          /\ run_pc' = [run_pc EXCEPT ![r] = "done"]
     ELSE /\ run_pc' = [run_pc EXCEPT ![r] = "delete"]
          /\ UNCHANGED result
  /\ UNCHANGED <<restVars, trip_id, content, items_to_save, llm_calls,
                 failed_at, itinerary_items, db_log>>

\* Line 163: the delete call is served.
DeleteItems(r) ==
  /\ run_pc[r] = "delete"
  /\ StoreServes(r)
  /\ itinerary_items' = RemainingRows(itinerary_items, trip_id[r])
  /\ db_log' = Append(db_log, [run |-> r, op |-> "delete",
                               trips |-> TripsOf(DeletedRows(itinerary_items, trip_id[r]))])
  /\ run_pc' = [run_pc EXCEPT ![r] = "build"]
  /\ UNCHANGED <<restVars, trip_id, content, items_to_save, llm_calls, result,
                 failed_at>>

\* Line 163: the delete call fails; execute() raises and nothing catches it.
DeleteFails(r) ==
  /\ run_pc[r] = "delete"
  /\ Raise(r, "delete", "APIError")
  /\ UNCHANGED <<restVars, trip_id, content, items_to_save, llm_calls,
                 itinerary_items, db_log>>

\* Lines 165-178: the rows are assembled, or the loop raises.
BuildItems(r) ==
  /\ run_pc[r] = "build"
  /\ LET built == Build(trip_id[r], content[r])
     IN IF built.raised # ""
        THEN /\ Raise(r, "build", built.raised)
             /\ UNCHANGED items_to_save
        ELSE /\ items_to_save' = [items_to_save EXCEPT ![r] = built.items]
             /\ run_pc' = [run_pc EXCEPT ![r] = "insert"]
             /\ UNCHANGED <<result, failed_at>>
  /\ UNCHANGED <<restVars, trip_id, content, llm_calls, itinerary_items, db_log>>

\* Lines 180-181: the insert call is served (and is not made for no rows).
InsertItems(r) ==
  /\ run_pc[r] = "insert"
  /\ IF items_to_save[r] # <<>>
     THEN /\ StoreServes(r)
          /\ itinerary_items' = itinerary_items \o items_to_save[r]
          /\ db_log' = Append(db_log, [run |-> r, op |-> "insert",
                                       trips |-> TripsOf(items_to_save[r])])
     ELSE UNCHANGED <<itinerary_items, db_log>>
  /\ run_pc' = [run_pc EXCEPT ![r] = "return"]
  /\ UNCHANGED <<restVars, trip_id, content, items_to_save, llm_calls, result,
                 failed_at>>

\* Line 181: the insert call fails; execute() raises and nothing catches it.
InsertFails(r) ==
  /\ run_pc[r] = "insert"
  /\ items_to_save[r] # <<>>
  /\ Raise(r, "insert", "APIError")
  /\ UNCHANGED <<restVars, trip_id, content, items_to_save, llm_calls,
                 itinerary_items, db_log>>

\* Lines 186-193: the link for ordered_names and the result dictionary.
ReturnResult(r) ==
  /\ run_pc[r] = "return"
  /\ result' = [result EXCEPT ![r] =
       [kind |-> "ok", map_url |-> generate_google_maps_url(ordered_names, <<"G">>)]]
  /\ run_pc' = [run_pc EXCEPT ![r] = "done"]
  /\ UNCHANGED <<restVars, trip_id, content, items_to_save, llm_calls,
                 failed_at, itinerary_items, db_log>>

\* A row of the itinerary stored for a trip before the runs.
OldRow(trip) ==
  [trip_id |-> trip, day_number |-> 1, start_time |-> DEFAULT_START,
   end_time |-> DEFAULT_END, notes |-> <<"Old", "">>]

\* One session, or two, is at line 152 of generate_itinerary; the routing
\* pipeline ended with no names (the only way line 152 is reached); each trip
\* has a stored itinerary.
PersistInit ==
  /\ entry = "generate_itinerary"
  /\ pc = "persist"
  /\ PipeIdle
  /\ TransitIdle
  /\ MapsIdle
  /\ HotelsIdle
  /\ \E started \in (SUBSET Runs) \ {{}} :
       /\ run_pc = [r \in Runs |-> IF r \in started THEN "llm" ELSE "off"]
       /\ \E trips \in [started -> Trips] :
            trip_id = [r \in Runs |-> IF r \in started THEN trips[r] ELSE None]
  /\ content = [r \in Runs |-> None]
  /\ items_to_save = [r \in Runs |-> <<>>]
  /\ llm_calls = [r \in Runs |-> 0]
  /\ result = [r \in Runs |-> None]
  /\ failed_at = [r \in Runs |-> ""]
  /\ itinerary_items = <<OldRow("T1"), OldRow("T2")>>
  /\ db_log = <<>>

PersistNext ==
  \E r \in Runs :
    \/ LlmInvoke(r)
    \/ ParsePlan(r)
    \/ DeleteItems(r)
    \/ DeleteFails(r)
    \/ BuildItems(r)
    \/ InsertItems(r)
    \/ InsertFails(r)
    \/ ReturnResult(r)

SpecPersist == PersistInit /\ [][PersistNext]_vars

\* ------------------------------------------------------------ search_hotels
\* Prices are kept in hundredths of a rupee, so that daily_budget * 0.8 and
\* daily_budget * 0.75 are whole numbers.
Hundredths(rupees) == rupees * 100

\* Most offers in one answer of the hotel-offers API.
MaxOffers == 4
\* The daily budgets tried: around the hostel price and the two thresholds.
HotelBudgets == {0, 500, 799, 800, 2999, 3000, 7999, 8000, 10000}
\* The totals (in rupees) an offer is tried with.
OfferPrices == {500, 3000, 9000}

\* the fallback of lines 76-81
PREMIUM_BUDGET == 8000
PREMIUM_PERCENT == 80
BOUTIQUE_BUDGET == 3000
BOUTIQUE_PERCENT == 75
HOSTEL_PRICE == 800
\* options[:3]
MAX_OPTIONS == 3

\* An offer of the API: one whose price and name can be read, or one for which
\* line 60 or 61 raises.
GoodOffer(rupees) == [kind |-> "offer", name |-> "Hotel", price |-> Hundredths(rupees)]
BadOffer == [kind |-> "malformed"]
Offers == {BadOffer} \cup {GoodOffer(p) : p \in OfferPrices}
OfferLists == UNION {[1 .. n -> Offers] : n \in 0 .. MaxOffers}

\* if price <= daily_budget
WithinBudget(price, budget) == price <= Hundredths(budget)

\* Lines 58-65: the offers that can be read and are within the budget.
RECURSIVE OfferLoop(_, _, _)
OfferLoop(offers, budget, opts) ==
  IF offers = <<>> THEN opts
  ELSE LET offer == Head(offers)
       IN IF offer.kind = "offer" /\ WithinBudget(offer.price, budget)
          THEN OfferLoop(Tail(offers), budget,
                         Append(opts, [name |-> offer.name, price |-> offer.price,
                                       type |-> "Hotel"]))
          ELSE OfferLoop(Tail(offers), budget, opts)

\* Lines 72-81: the estimates used when options is empty.
Fallback(budget) ==
  (IF budget >= PREMIUM_BUDGET
   THEN <<[name |-> "Premium City Hotel", price |-> budget * PREMIUM_PERCENT,
           type |-> "4-Star"]>>
   ELSE IF budget >= BOUTIQUE_BUDGET
   THEN <<[name |-> "Cozy Boutique Stay", price |-> budget * BOUTIQUE_PERCENT,
           type |-> "3-Star"]>>
   ELSE <<>>)
    \o <<[name |-> "Backpacker Hostel / Zostel", price |-> Hundredths(HOSTEL_PRICE),
          type |-> "Hostel"]>>

\* options[:3]
FirstOptions(opts) ==
  SubSeq(opts, 1, IF Len(opts) < MAX_OPTIONS THEN Len(opts) ELSE MAX_OPTIONS)

hotelsRest == <<entry, pc, pipeVars, transitVars, mapsVars, persistVars>>

\* Line 34: token = get_amadeus_token() ("" without keys or on a failure).
HotelsToken ==
  /\ hotels_pc = "token"
  /\ \E t \in {"", "token"} : token' = t
  /\ hotels_pc' = IF token' # "" THEN "api" ELSE "fallback"
  /\ UNCHANGED <<hotelsRest, hotels_budget, options, hotels_ret>>

\* Lines 41-67 when no offers are read: a request raises, a status is not
\* 200, or no hotel is near.
HotelsNoOffers ==
  /\ hotels_pc = "api"
  /\ hotels_pc' = "fallback"
  /\ UNCHANGED <<hotelsRest, hotels_budget, token, options, hotels_ret>>

\* Lines 41-65 when the offers request answers 200: the loop over the offers.
HotelsOffers ==
  /\ hotels_pc = "api"
  /\ \E offers \in OfferLists : options' = OfferLoop(offers, hotels_budget, options)
  /\ hotels_pc' = "fallback"
  /\ UNCHANGED <<hotelsRest, hotels_budget, token, hotels_ret>>

\* Lines 72-81: if not options.
HotelsFallback ==
  /\ hotels_pc = "fallback"
  /\ options' = IF options = <<>> THEN Fallback(hotels_budget) ELSE options
  /\ hotels_pc' = "return"
  /\ UNCHANGED <<hotelsRest, hotels_budget, token, hotels_ret>>

\* Line 83: return options[:3]
HotelsReturn ==
  /\ hotels_pc = "return"
  /\ hotels_ret' = FirstOptions(options)
  /\ hotels_pc' = "done"
  /\ UNCHANGED <<hotelsRest, hotels_budget, token, options>>

HotelsInit ==
  /\ entry = "search_hotels"
  /\ pc = "call"
  /\ PipeIdle
  /\ TransitIdle
  /\ MapsIdle
  /\ PersistIdle
  /\ hotels_pc = "token"
  /\ hotels_budget \in HotelBudgets
  /\ token = ""
  /\ options = <<>>
  /\ hotels_ret = None

HotelsNext ==
  \/ HotelsToken
  \/ HotelsNoOffers
  \/ HotelsOffers
  \/ HotelsFallback
  \/ HotelsReturn

SpecHotels == HotelsInit /\ [][HotelsNext]_vars

\* ------------------------------------------------------------ properties
Range(s) == {s[k] : k \in 1 .. Len(s)}
Min(S) == CHOOSE x \in S : \A y \in S : x <= y
Identity(n) == [k \in 1 .. n |-> k]
\* The names of place_names at the positions of S, in input order.
NamesAt(S) == SelectSeq(place_names, LAMBDA nm : \E k \in S : place_names[k] = nm)
\* The nodes still unvisited when the last node of optimized_route was chosen.
UnvisitedBefore ==
  (1 .. Len(places)) \ {optimized_route[k] : k \in 1 .. Len(optimized_route) - 1}
LastNode == optimized_route[Len(optimized_route)]
HasStepped == Len(optimized_route) >= 2
Degenerate(r) == \A k \in DOMAIN r : r[k] = Unknown

\* C1: the route solve_tsp returns is a permutation of its input: the same
\* length, every input coordinate exactly once; and at no moment of the run
\* does optimized_route hold a node twice.
C1_RouteIsPermutation ==
  /\ \A a, b \in 1 .. Len(optimized_route) :
       a # b => optimized_route[a] # optimized_route[b]
  /\ pc = "tsp_done" =>
       /\ Len(sorted_coords) = Len(places)
       /\ \A k \in 1 .. Len(places) :
            Cardinality({m \in 1 .. Len(sorted_coords) : sorted_coords[m] = places[k]}) = 1

\* C1's case: a route of four nodes over a partly unknown grid, returned in
\* an order other than the input's, with a fallback step in it.
C1_Witness ==
  /\ pc = "tsp_done"
  /\ Len(places) = 4
  /\ ~all_known /\ ~all_unknown
  /\ fallbacks # {}
  /\ sorted_coords # places

\* C2: with every entry read so far a known distance, the route starts at
\* input index 0 (1 here) and the node chosen by each step is an unvisited
\* node at minimal distance from the then-current node, the first such node
\* in input order.
C2_NearestFirstWins ==
  /\ optimized_route # <<>> => optimized_route[1] = 1
  /\ (all_known /\ HasStepped) =>
       /\ DOMAIN row = UnvisitedBefore
       /\ LastNode \in UnvisitedBefore
       /\ \A m \in UnvisitedBefore : row[LastNode] <= row[m]
       /\ \A m \in UnvisitedBefore : m < LastNode => row[m] > row[LastNode]

\* C2's case: a step over a fully known grid where two unvisited nodes tie at
\* the minimal distance and a third is farther.
C2_Witness ==
  /\ all_known /\ HasStepped
  /\ LastNode # Min(UnvisitedBefore)
  /\ \E m \in UnvisitedBefore : m > LastNode /\ row[m] = row[LastNode]
  /\ \E m \in UnvisitedBefore : row[m] > row[LastNode]

\* C3 as stated: once a step found every remaining distance from the current
\* node unknown, the nodes visited from that step on are in input order.
C3_RemainingInInputOrder ==
  pc = "tsp_done" =>
    \A f \in fallbacks :
      \A a, b \in f .. Len(optimized_route) :
        a < b => optimized_route[a] < optimized_route[b]

\* The state part of C3 as amended: the node taken by a step that found every
\* remaining distance unknown is the first unvisited node in input order; a
\* run where every step was such a step is in input order; no exception.
C3_StepSafety ==
  /\ (HasStepped /\ row # <<>> /\ Degenerate(row)) =>
       /\ DOMAIN row = UnvisitedBefore
       /\ LastNode = Min(UnvisitedBefore)
       /\ Len(optimized_route) \in fallbacks
  /\ (all_unknown /\ pc \in {"tsp_loop", "tsp_done"}) =>
       optimized_route = Identity(Len(optimized_route))
  /\ (all_unknown /\ pc = "tsp_done") => sorted_coords = places
  /\ pc \in {"tsp_loop", "tsp_done"} => error = ""

\* C3, amended: a step that finds every remaining distance from the current
\* node unknown goes to the first unvisited node in input order; a run where
\* every step was such a step returns the input order; and every run of
\* solve_tsp ends with its return (no exception, no endless loop).
C3_FallbackFirstUnvisited ==
  /\ []C3_StepSafety
  /\ (pc = "solve_tsp") ~> (pc = "tsp_done")

\* C3's case: a degenerate step followed by a step with a known distance that
\* leaves the input order, and the run returned.
C3_Witness ==
  /\ pc = "tsp_done"
  /\ Len(places) = 4
  /\ 2 \in fallbacks
  /\ optimized_route = <<1, 2, 4, 3>>

\* C4: whenever no matrix is available (fewer than 2 coordinates, a request
\* that raises, a code other than "Ok") get_osrm_matrix gives the empty grid
\* and the route returned is the resolved coordinates in input order.
C4_NoMatrixIdentityRoute ==
  /\ \A n \in 0 .. MaxN : \A response \in OsrmResponses :
       (n < 2 \/ response # "ok") =>
         get_osrm_matrix([k \in 1 .. n |-> Coordinate(AllNames[k])], response) = "absent"
  /\ (entry = "generate_itinerary" /\ pc = "returned" /\ matrix = "absent") =>
       ret = [k \in 1 .. Len(coords) |-> Str(coords[k].name)]

\* C5: every node of the route optimize_daily_route returns carries the
\* distance to the next stop, the entry of the grid used for the step (zero
\* or unknown after a fallback step), and generate_itinerary reads it.
C5_RouteCarriesStepDistance ==
  /\ pc = "returned" =>
       /\ \A k \in 1 .. Len(ret) : ret[k].kind = "dict"
       /\ (matrix = "present" /\ HasStepped) =>
            ret[Len(ret) - 1].distance_to_next =
              IF Len(optimized_route) \in fallbacks THEN 0 ELSE row[LastNode]
  /\ error # "TypeError"

\* C6: the route optimize_daily_route returns holds only resolved places: it
\* is no longer than place_names, and shorter when a place failed to resolve.
C6_RouteOnlyResolved ==
  pc = "returned" =>
    /\ \A k \in 1 .. Len(ret) : ret[k].val \in Range(NamesAt(matched))
    /\ Len(ret) <= Len(place_names)
    /\ matched # 1 .. Len(place_names) => Len(ret) < Len(place_names)

\* C7: fetch_coordinates returns one coordinate per name for which an issued
\* query returned a match, in input order, nothing for the other names, and
\* every name of the batch was looked up.
C7_ResolvedInOrder ==
  /\ NamesOf(results) = NamesAt({k \in matched : k < idx \/ pc = "sleep"})
  /\ pc = "fetch_return" =>
       /\ NamesOf(results) = NamesAt(matched)
       /\ queried = 1 .. Len(place_names)

\* C7's case: a batch of four names is done, the first and the third name
\* resolved at no query and are left out, the second and the fourth are in
\* the result.
C7_Witness ==
  /\ pc = "fetch_return"
  /\ Len(place_names) = 4
  /\ matched = {2, 4}
  /\ NamesOf(results) = <<"B", "D">>

\* C8: the queries issued for a name are, in this order, the strict query on
\* the strict provider, the fuzzy regional query and the fuzzy global query on
\* the loose provider; every query but the last issued returned no match.
C8_StrategyOrder ==
  /\ Len(attempts) <= 3
  /\ \A k \in 1 .. Len(attempts) :
       /\ k = 1 => /\ attempts[k].strategy = "strict"
                   /\ attempts[k].provider = "Nominatim"
                   /\ attempts[k].query = <<place_names[idx], ", ", City>>
       /\ k = 2 => /\ attempts[k].strategy = "regional"
                   /\ attempts[k].provider = "Photon"
                   /\ attempts[k].query = <<place_names[idx], " ", City>>
       /\ k = 3 => /\ attempts[k].strategy = "global"
                   /\ attempts[k].provider = "Photon"
                   /\ attempts[k].query = <<place_names[idx]>>
       /\ k < Len(attempts) => attempts[k].outcome = "none"

\* C8's case: the second name of a batch matched at the fuzzy regional query,
\* after the strict query found nothing, and the lookup ended there.
C8_Witness ==
  /\ pc = "sleep"
  /\ idx = 2
  /\ Len(attempts) = 2
  /\ attempts[2].outcome = "match"

\* C9: an error raised by a query is treated as "not found" for that step:
\* the next strategy is still tried for the same name.
C9_ErrorCascades ==
  pc = "sleep" =>
    \A k \in 1 .. Len(attempts) :
      (attempts[k].outcome = "error" /\ k < 3) => Len(attempts) > k

\* C10: names are looked up one at a time in input order, and the first
\* query of every name after the first is issued only once the full delay
\* has been slept since the lookup of the name before it ended.
C10_DelayBetweenNames ==
  /\ queried \subseteq 1 .. idx
  /\ \A k \in queried : \A m \in 1 .. k : m \in queried
  /\ (idx > 1 /\ attempts # <<>>) => lookup_gap >= SLEEP_TENTHS

\* C10's case: the strict query of the third name was issued (and raised)
\* after a name that resolved and a name that did not.
C10_Witness ==
  /\ idx = 3
  /\ Len(attempts) = 1
  /\ attempts[1].outcome = "error"
  /\ matched = {1}
  /\ lookup_gap >= SLEEP_TENTHS

\* round(x) of Python 3 for x = num / 1000 >= 0: to the nearest whole number,
\* a half to the even one.
RoundHalfEven(num) ==
  LET q == num \div 1000
      r == num % 1000
  IN IF r > 500 \/ (r = 500 /\ q % 2 = 1) THEN q + 1 ELSE q

\* C11: get_transit_instruction takes its rules in order: a distance <= 0
\* gives no instruction for any budget; else a distance below 2.0 km gives
\* walking at cost 0; else (2.0 km included) a budget > 4000 gives a cab and a
\* budget <= 4000 (4000 included) an auto-rickshaw.
C11_TransitRules ==
  pc = "done" =>
    /\ distance_meters <= 0 => instruction.mode = "none"
    /\ (distance_meters > 0 /\ distance_meters < 2000) =>
         (instruction.mode = "walk" /\ instruction.cost = 0)
    /\ (distance_meters >= 2000 /\ daily_budget > 4000) => instruction.mode = "cab"
    /\ (distance_meters >= 2000 /\ daily_budget <= 4000) => instruction.mode = "auto"

\* C11's case: a call at both boundaries, exactly 2.0 km with a budget of
\* exactly 4000, returned the auto-rickshaw.
C11_Witness ==
  /\ pc = "done"
  /\ distance_meters = 2000
  /\ daily_budget = 4000
  /\ instruction.mode = "auto"

\* C12: for every positive distance the minutes and the cost of the
\* instruction are the rounded products of the distance in km and the rate of
\* the mode: 12 min/km on foot; 25 per km and 3 min/km by cab; 15 per km and
\* 4 min/km by auto-rickshaw.
C12_RoundedEstimates ==
  (pc = "done" /\ distance_meters > 0) =>
    /\ instruction.mode = "walk" =>
         instruction.mins = RoundHalfEven(distance_meters * 12)
    /\ instruction.mode = "cab" =>
         /\ instruction.cost = RoundHalfEven(distance_meters * 25)
         /\ instruction.mins = RoundHalfEven(distance_meters * 3)
    /\ instruction.mode = "auto" =>
         /\ instruction.cost = RoundHalfEven(distance_meters * 15)
         /\ instruction.mins = RoundHalfEven(distance_meters * 4)

\* The index of the first c in str, 0 when there is none.
RECURSIVE IndexOf(_, _)
IndexOf(str, c) ==
  IF str = <<>> THEN 0
  ELSE IF Head(str) = c THEN 1
  ELSE LET k == IndexOf(Tail(str), c) IN IF k = 0 THEN 0 ELSE k + 1

\* The pieces of str between the separators c.
RECURSIVE Split(_, _)
Split(str, c) ==
  LET k == IndexOf(str, c)
  IN IF k = 0 THEN <<str>>
     ELSE <<SubSeq(str, 1, k - 1)>> \o Split(SubSeq(str, k + 1, Len(str)), c)

\* The character of two hexadecimal digits.
CharOf(hex) ==
  CASE hex = <<"2", "6">> -> "&"
    [] hex = <<"3", "D">> -> "="
    [] hex = <<"7", "C">> -> "|"
    [] hex = <<"2", "B">> -> "+"
    [] hex = <<"2", "5">> -> "%"
    [] OTHER -> "?"

\* What a browser reads out of a query value: "+" is a space and %XY a byte.
RECURSIVE Unquote(_)
Unquote(str) ==
  IF str = <<>> THEN <<>>
  ELSE IF Head(str) = "+" THEN <<" ">> \o Unquote(Tail(str))
  ELSE IF Head(str) = "%" /\ Len(str) >= 3
       THEN <<CharOf(SubSeq(str, 2, 3))>> \o Unquote(SubSeq(str, 4, Len(str)))
  ELSE <<Head(str)>> \o Unquote(Tail(str))

\* The key=value parameters of a link: what follows "?" split at "&".
Params(url) ==
  LET q == IndexOf(url, "?") IN Split(SubSeq(url, q + 1, Len(url)), "&")

KeyOf(param) == SubSeq(param, 1, IndexOf(param, "=") - 1)
ValueOf(param) == Unquote(SubSeq(param, IndexOf(param, "=") + 1, Len(param)))

\* The decoded values the link gives for a key, in order.
ValuesOf(url, key) ==
  LET ps == Params(url)
  IN SelectSeq([k \in 1 .. Len(ps) |-> <<KeyOf(ps[k]), ValueOf(ps[k])>>],
               LAMBDA kv : kv[1] = key)

\* The middle names with the city, pipe-joined in route order, written from the
\* claim's words.
RECURSIVE MiddleJoined(_, _, _)
MiddleJoined(plcs, city, k) ==
  IF k >= Len(plcs) THEN <<>>
  ELSE plcs[k] \o <<" ">> \o city
         \o (IF k + 1 < Len(plcs) THEN <<"|">> ELSE <<>>)
         \o MiddleJoined(plcs, city, k + 1)

TripRows(trip) == SelectSeq(itinerary_items, LAMBDA item : item.trip_id = trip)

\* The activities of an array of well-formed day entries, in plan order.
RECURSIVE FlatActs(_)
FlatActs(days) ==
  IF days = <<>> THEN <<>> ELSE Head(days).activities \o FlatActs(Tail(days))

\* The activities of a planner response whose rows were assembled.
PlanActs(response) ==
  IF response.kind = "array" THEN FlatActs(response.days) ELSE <<>>

AllDigits(str) == \A k \in DOMAIN str : str[k] \in Digits

\* A one or two digit hour, a colon and a two-digit minute at the start.
TimeAtStart(str) ==
  LET c == IndexOf(str, ":")
  IN /\ c \in {2, 3}
     /\ AllDigits(SubSeq(str, 1, c - 1))
     /\ Len(str) >= c + 2
     /\ AllDigits(SubSeq(str, c + 1, c + 2))

\* H:MM, HH:MM, H:MM:SS or HH:MM:SS and nothing else.
FullTime(str) ==
  LET parts == Split(str, ":")
  IN /\ Len(parts) \in {2, 3}
     /\ Len(parts[1]) \in {1, 2}
     /\ \A k \in 2 .. Len(parts) : Len(parts[k]) = 2
     /\ \A k \in 1 .. Len(parts) : AllDigits(parts[k])

\* The run assembled its rows and its insert step is behind it.
Saved(r) ==
  \/ run_pc[r] = "return"
  \/ run_pc[r] = "done" /\ result[r].kind = "ok"

\* No other run is under way on the trip of run r.
AloneOnTrip(r) ==
  \A other \in Active \ {r} : trip_id[other] # trip_id[r]

\* C13: the sanitizer runs on every activity of the plan: there is one row per
\* activity, in plan order; a time of the form H:MM or HH:MM with optional
\* seconds is the row's start_time unchanged; a time that is absent or does
\* not start with hour, colon and two-digit minute is replaced by "09:00:00";
\* and the rows are the ones written to the store.
C13_TimeSanitized ==
  \A r \in Active :
    Saved(r) =>
      LET acts == PlanActs(content[r])
          items == items_to_save[r]
      IN /\ Len(items) = Len(acts)
         /\ \A k \in 1 .. Len(acts) :
              /\ ("time" \in DOMAIN acts[k] /\ FullTime(acts[k].time)) =>
                   items[k].start_time = acts[k].time
              /\ ("time" \notin DOMAIN acts[k] \/ ~TimeAtStart(acts[k].time)) =>
                   items[k].start_time = <<"0", "9", ":", "0", "0", ":", "0", "0">>
         /\ AloneOnTrip(r) => TripRows(trip_id[r]) = items

\* C13's case: a run stored a plan of two activities, "14:30:00" kept and
\* "9:5" replaced by the default.
C13_Witness ==
  \E r \in Active :
    /\ run_pc[r] = "done"
    /\ result[r].kind = "ok"
    /\ Len(PlanActs(content[r])) = 2
    /\ "time" \in DOMAIN PlanActs(content[r])[1]
    /\ "time" \in DOMAIN PlanActs(content[r])[2]
    /\ PlanActs(content[r])[1].time = T_143000
    /\ PlanActs(content[r])[2].time = T_9_5
    /\ TripRows(trip_id[r])[1].start_time = T_143000
    /\ TripRows(trip_id[r])[2].start_time = DEFAULT_START

\* C14: every start_time in itinerary_items has the form HH:MM or HH:MM:SS in
\* full, with nothing before or after it, whatever time the planner returned.
C14_StartTimeWellFormed ==
  \A k \in DOMAIN itinerary_items : FullTime(itinerary_items[k].start_time)

\* The store calls of run r, in order.
CallsOf(r) == SelectSeq(db_log, LAMBDA call : call.run = r)

\* C15: a run that ends without failure, with no other run on its trip, made
\* its delete call before its insert call, and the rows stored for the trip
\* are then exactly the rows it assembled, one per activity of the plan, with
\* no row of the prior itinerary among them.
C15_ReplacesItinerary ==
  \A r \in Active :
    (run_pc[r] = "done" /\ result[r].kind = "ok" /\ AloneOnTrip(r)) =>
      /\ CallsOf(r) # <<>>
      /\ CallsOf(r)[1].op = "delete"
      /\ \A k \in 2 .. Len(CallsOf(r)) : CallsOf(r)[k].op = "insert"
      /\ Len(CallsOf(r)) <= 2
      /\ TripRows(trip_id[r]) = items_to_save[r]
      /\ Len(TripRows(trip_id[r])) = Len(PlanActs(content[r]))
      /\ \A k \in DOMAIN itinerary_items :
           itinerary_items[k] # OldRow(trip_id[r])

\* C15's case: a single run ended without failure after a delete and an insert
\* of two rows, which are the rows of its trip.
C15_Witness ==
  \E r \in Active :
    /\ Active = {r}
    /\ run_pc[r] = "done"
    /\ result[r].kind = "ok"
    /\ Len(CallsOf(r)) = 2
    /\ Len(items_to_save[r]) = 2
    /\ TripRows(trip_id[r]) = items_to_save[r]

\* C16: the delete and the insert are two independent steps with no lock or
\* transaction: while one run is between its delete and its insert, the store
\* serves the delete or insert of another run on the same trip; and a run that
\* stops between its delete and its insert, alone on its trip, leaves the
\* trip's itinerary empty.
C16_NoLockAroundReplace ==
  /\ \A r1 \in Active : \A r2 \in Active \ {r1} :
       (trip_id[r1] = trip_id[r2] /\ run_pc[r1] \in {"build", "insert"}) =>
         /\ run_pc[r2] = "delete" => ENABLED DeleteItems(r2)
         /\ run_pc[r2] = "insert" => ENABLED InsertItems(r2)
  /\ \A r \in Active :
       (failed_at[r] \in {"build", "insert"} /\ AloneOnTrip(r)) =>
         TripRows(trip_id[r]) = <<>>

\* C16's case: two runs on the same trip interleaved their deletes and inserts
\* and both ended without failure; the trip holds the rows of both.
C16_Witness ==
  /\ Active = Runs
  /\ trip_id[1] = trip_id[2]
  /\ \A r \in Runs : run_pc[r] = "done" /\ result[r].kind = "ok"
  /\ items_to_save[1] # <<>>
  /\ items_to_save[2] # <<>>
  /\ TripRows(trip_id[1]) = items_to_save[1] \o items_to_save[2]
  /\ [k \in 1 .. 4 |-> db_log[k].op] = <<"delete", "delete", "insert", "insert">>

\* The trips no run was started for.
OtherTrips == Trips \ {trip_id[r] : r \in Active}

\* C17: a run only deletes and inserts rows of its own trip: every store call
\* touched rows of the caller's trip only, the rows of a trip no run is for
\* are the ones stored at the start, the rows of a trip are untouched until
\* its own run deletes them, and when the runs are for different trips each
\* trip ends with exactly the rows of its own run.
C17_OtherTripsUntouched ==
  /\ \A k \in DOMAIN db_log : db_log[k].trips \subseteq {trip_id[db_log[k].run]}
  /\ \A trip \in OtherTrips : TripRows(trip) = <<OldRow(trip)>>
  /\ \A r \in Active :
       AloneOnTrip(r) =>
         /\ run_pc[r] \in {"llm", "parse", "delete"} =>
              TripRows(trip_id[r]) = <<OldRow(trip_id[r])>>
         /\ (run_pc[r] = "done" /\ result[r].kind = "ok") =>
              TripRows(trip_id[r]) = items_to_save[r]

\* C17's case: two runs for different trips interleaved their store calls and
\* ended without failure, each with rows; each trip holds its own run's rows.
C17_Witness ==
  /\ Active = Runs
  /\ trip_id[1] # trip_id[2]
  /\ \A r \in Runs :
       /\ run_pc[r] = "done"
       /\ result[r].kind = "ok"
       /\ items_to_save[r] # <<>>
       /\ TripRows(trip_id[r]) = items_to_save[r]
  /\ [k \in 1 .. 4 |-> db_log[k].run] = <<1, 2, 1, 2>>

\* C18: a failing delete or insert call is surfaced to the caller, and what
\* the caller gets for a failed insert after a served delete (old rows gone,
\* new rows not stored) differs from what it gets for a failed delete (stored
\* itinerary untouched).
C18_PartialStateDistinct ==
  /\ \A r \in Active :
       failed_at[r] \in {"delete", "insert"} => result[r].kind \in {"error", "exception"}
  /\ \A r1 \in Active : \A r2 \in Active :
       (failed_at[r1] = "delete" /\ failed_at[r2] = "insert") => result[r1] # result[r2]

\* The planner's answer is not valid JSON, or not an array of day entries that
\* each hold an 'activities' list.
BadPlan(response) ==
  \/ response.kind # "array"
  \/ \E k \in DOMAIN response.days : "activities" \notin DOMAIN response.days[k]

\* C19: when the planner's answer is not valid JSON or not of the expected
\* shape, the run does not end in success: the caller gets an error, the run
\* made no insert call, and it called the planner exactly once.
C19_BadPlanIsFatal ==
  \A r \in Active :
    (run_pc[r] = "done" /\ BadPlan(content[r])) =>
      /\ result[r].kind # "ok"
      /\ \A k \in DOMAIN db_log : ~(db_log[k].run = r /\ db_log[k].op = "insert")
      /\ llm_calls[r] = 1

\* C21: a run of generate_itinerary for n >= 2 places that are all geocoded,
\* with a matrix whose distances are all known and whose step distances are
\* positive, ends without an exception after n - 1 transit instructions, one
\* per consecutive pair of the optimized route in route order.
C21_TransitPerStep ==
  (/\ entry = "generate_itinerary"
   /\ Len(place_names) >= 2
   /\ matched = 1 .. Len(place_names)
   /\ matrix = "present"
   /\ all_known
   /\ \A k \in DOMAIN row : row[k] > 0
   /\ pc \in {"raised", "prompt"}) =>
    /\ error = ""
    /\ pc = "prompt"
    /\ Len(transit_log) = Len(place_names) - 1
    /\ \A k \in 1 .. Len(transit_log) :
         /\ transit_log[k][1] = sorted_coords[k].name
         /\ transit_log[k][2] = sorted_coords[k + 1].name

\* C22: the end_time of every row in itinerary_items is the fixed default
\* "00:00:00", whatever end_time the planner gave in the activity.
C22_EndTimeFixed ==
  \A k \in DOMAIN itinerary_items :
    itinerary_items[k].end_time = <<"0", "0", ":", "0", "0", ":", "0", "0">>

\* C24: when a run, alone on its trip, ends without success on a planner
\* answer that is not valid JSON or not of the expected shape, the rows that
\* were stored for the trip before the run are still stored.
C24_NoDataLostOnPlanFailure ==
  \A r \in Active :
    (/\ run_pc[r] = "done"
     /\ AloneOnTrip(r)
     /\ BadPlan(content[r])
     /\ result[r].kind # "ok") =>
      TripRows(trip_id[r]) = <<OldRow(trip_id[r])>>

\* C23: every option search_hotels returns has a price within the daily
\* budget, for every budget and every outcome of the hotel API, the fallback
\* list included.
C23_HotelsWithinBudget ==
  hotels_pc = "done" =>
    \A k \in DOMAIN hotels_ret : hotels_ret[k].price <= hotels_budget * 100

====
